---- MODULE Spec2Model ----
(***************************************************************************)
(* Model of the BTC Map triage pipeline (src/scripts): record extraction   *)
(* (Phase1Verifier._parse_issue), the five phase-1 checks, the confidence  *)
(* scorer, the phase-2 outreach verifier and the batch orchestrator.       *)
(*                                                                         *)
(* Text is modelled by tokens.  A submission body is a sequence of lines,  *)
(* each line a record [label, val, link]: the text "<label>: <val>", or    *)
(* the bare text <val> when label = "", or an empty line; link is <<>> or  *)
(* the <<lat, lon>> pair of an openstreetmap.org map link on that line.    *)
(* A Python dict key that is missing is the value Absent.                  *)
(***************************************************************************)
EXTENDS Integers, Sequences, FiniteSets, TLC

(***************************************************************************)
(* Tokens                                                                  *)
(***************************************************************************)
Absent == "<absent>"
NoMatch == "<nomatch>"

\* Tokens that match -?\d+\.\d+ and their float value in units of 1/10000.
DecimalTokens == {"40.7128", "-74.0060", "33.650462", "-85.834185", "95.5000"}
FloatOf(t) ==
    CASE t = "40.7128" -> 407128
      [] t = "-74.0060" -> 0 - 740060
      [] t = "33.650462" -> 336504
      [] t = "-85.834185" -> 0 - 858341
      [] t = "95.5000" -> 955000
      [] OTHER -> 0

SchemeUrlTokens == {"https://pizzapalace.example.com"}
\* A URL whose scheme is written in upper case: https?:// matches it under
\* re.IGNORECASE, str.startswith(('http://', 'https://')) does not.
UpperSchemeUrlTokens == {"HTTPS://pizzapalace.example.com"}
BareUrlTokens == {"pizzapalace.example.com"}
EmailTokens == {"owner@pizzapalace.example.com"}
PhoneTokens == {"+1-555-0123"}
\* str.lower() on the tokens whose case matters to the placeholder test.
Lower(t) ==
    CASE t = "N/A" -> "n/a"
      [] t = "None" -> "none"
      [] OTHER -> t

Line(l, v) == [label |-> l, val |-> v, link |-> <<>>]
\* A labelled line whose value is a map link .../#map=<zoom>/<lat>/<lon>.
LinkLine(l, lat, lon) ==
    [label |-> l, val |-> "https://www.openstreetmap.org/#map", link |-> <<lat, lon>>]
EmptyLine(ln) == ln.label = "" /\ ln.val = "" /\ ln.link = <<>>
\* A value of white space only: the line reads "<label>: " with nothing after
\* the blank (the value "" is the line "<label>:" ending at the colon).
Spaces == " "

\* The text of a line as the regular expressions see it.
Render(ln) ==
    IF ln.label = "" THEN ln.val
    ELSE IF ln.val \in {"", Spaces} THEN ln.label \o ":"
    ELSE ln.label \o ": " \o ln.val

MinOf(S) == CHOOSE m \in S : \A n \in S : m <= n

\* F applied to the value of x, x being evaluated once (a local variable).
Bind(x, F(_)) == CHOOSE r \in {F(v) : v \in {x}} : TRUE

(***************************************************************************)
(* Regular expressions of _parse_square_format / _parse_manual_format.     *)
(* A pattern is [hits, cls]: the labels whose text ends with the pattern's *)
(* literal prefix (re.IGNORECASE), and the class of its capture group.     *)
(***************************************************************************)
\* The capture group of class cls applied to a bare token t.
CaptureToken(cls, t) ==
    CASE cls = "line" -> IF t = "" THEN NoMatch ELSE t
      [] cls = "decimal" -> IF t \in DecimalTokens THEN t ELSE NoMatch
      [] cls = "website_manual" ->
            IF t \in SchemeUrlTokens \cup UpperSchemeUrlTokens \cup BareUrlTokens
                    \cup EmailTokens \cup DecimalTokens
            THEN t ELSE NoMatch
      [] cls = "website_square" ->
            IF t \in SchemeUrlTokens \cup UpperSchemeUrlTokens THEN t ELSE NoMatch
      [] cls = "phone" -> IF t \in PhoneTokens THEN t ELSE ""
      [] cls = "contact" -> IF t \in EmailTokens THEN t ELSE NoMatch
      [] cls = "json" -> IF t = "" THEN NoMatch ELSE t
      [] OTHER -> NoMatch

\* The capture group applied at the start of a whole line (after \s* has
\* consumed the rest of the label's own line and the newline).
CaptureLine(cls, ln) ==
    IF cls = "json" THEN NoMatch
    ELSE IF ln.label = "" THEN CaptureToken(cls, ln.val)
    ELSE CASE cls = "line" -> Render(ln)
           [] cls = "phone" -> ""
           [] OTHER -> NoMatch

NextTextLine(body, i) ==
    LET later == {j \in (i + 1)..Len(body) : ~EmptyLine(body[j])}
    IN  IF later = {} THEN 0 ELSE MinOf(later)

\* The match of "<label>:\s*(<group>)" at the label of line i.
\* With nothing but white space up to the end of the body, \s* gives the
\* white space back to a group that accepts it, and strip() leaves ''.
MatchAt(body, i, cls) ==
    IF body[i].val \notin {"", Spaces} THEN CaptureToken(cls, body[i].val)
    ELSE LET j == NextTextLine(body, i)
         IN  IF j = 0
             THEN (IF \/ cls = "phone" /\ i < Len(body)
                      \/ cls \in {"line", "phone"} /\ body[i].val = Spaces
                   THEN "" ELSE NoMatch)
             ELSE CaptureLine(cls, body[j])

\* re.search(pattern, body, re.IGNORECASE): group(1).strip() of the leftmost match.
re_search(body, pat) ==
    LET occ == {i \in 1..Len(body) :
                    body[i].label \in pat.hits /\ MatchAt(body, i, pat.cls) # NoMatch}
    IN  IF occ = {} THEN NoMatch ELSE MatchAt(body, MinOf(occ), pat.cls)

\* re.search(r'openstreetmap\.org.*map=\d+/(-?\d+\.\d+)/(-?\d+\.\d+)', body)
osm_match(body) ==
    LET occ == {i \in 1..Len(body) : body[i].link # <<>>}
    IN  IF occ = {} THEN <<>> ELSE body[MinOf(occ)].link

(***************************************************************************)
(* Record extraction: Phase1Verifier._parse_issue and its two formats.     *)
(* The record keeps the fields the checks and the outreach read: name,     *)
(* source, address, lat, lon, category, website, phone, contact.           *)
(***************************************************************************)
Pat(hits, cls) == [hits |-> hits, cls |-> cls]

\* The patterns dict of _parse_square_format (fields read downstream).
SquarePatterns ==
    [name |-> Pat({"Name", "Merchant name"}, "line"),
     category |-> Pat({"Category"}, "line"),
     address |-> Pat({"\"address\""}, "json"),
     lat |-> Pat({"Lat", "lat"}, "decimal"),
     lon |-> Pat({"Lon", "lon"}, "decimal"),
     website |-> Pat({"Website", "website"}, "website_square")]

\* The patterns dict of _parse_manual_format (fields read downstream).
ManualPatterns ==
    [name |-> Pat({"Merchant name"}, "line"),
     address |-> Pat({"Address"}, "line"),
     lat |-> Pat({"Lat"}, "decimal"),
     lon |-> Pat({"Long"}, "decimal"),
     category |-> Pat({"Category"}, "line"),
     website |-> Pat({"Website"}, "website_manual"),
     phone |-> Pat({"Phone"}, "phone"),
     contact |-> Pat({"Contact"}, "contact")]

Fields == {"name", "address", "lat", "lon", "category", "website", "phone", "contact"}

\* A parsed dict: every field Absent unless a rule stored it.
EmptyData == [f \in Fields |-> Absent]

\* The link's coordinates only filling in what the field rules did not find.
WithOsmLink_fill(data, body) ==
    LET m == osm_match(body)
    IN  IF m = <<>> THEN data
        ELSE [data EXCEPT !["lat"] = IF @ = Absent THEN m[1] ELSE @,
                          !["lon"] = IF @ = Absent THEN m[2] ELSE @]

\* "Extract coordinates from OSM link if present": both keys are overwritten.
WithOsmLink(data, body) ==
    LET m == osm_match(body)
    IN  IF m = <<>> THEN data
        ELSE [data EXCEPT !["lat"] = m[1], !["lon"] = m[2]]

\* _parse_square_format: every match is stored, stripped, with no filter.
SquareField(body, f) ==
    IF f \in DOMAIN SquarePatterns
    THEN (LET m == re_search(body, SquarePatterns[f])
          IN  IF m = NoMatch THEN Absent ELSE m)
    ELSE Absent

_parse_square_format(body) ==
    WithOsmLink([f \in Fields |-> SquareField(body, f)], body)

\* _parse_manual_format: a match is stored unless it is empty or a placeholder.
ManualField(body, f) ==
    LET m == re_search(body, ManualPatterns[f])
    IN  IF m = NoMatch \/ m = "" \/ Lower(m) \in {"", "n/a", "none"} THEN Absent ELSE m

_parse_manual_format(body) ==
    WithOsmLink([f \in Fields |-> ManualField(body, f)], body)

\* The substring tests of _parse_issue.
MentionsSquare(t) == t \in {"square", "Square", "1 Times Square"}
HasOriginSquare(body) ==
    \E i \in 1..Len(body) : body[i].label = "Origin" /\ body[i].val = "square"
HasId(body) == \E i \in 1..Len(body) : body[i].label = "Id"
HasSquareWord(body) ==
    \E i \in 1..Len(body) : MentionsSquare(body[i].label) \/ MentionsSquare(body[i].val)
HasMerchantName(body) == \E i \in 1..Len(body) : body[i].label = "Merchant name"

DetectSource(body) ==
    IF HasOriginSquare(body) \/ (HasId(body) /\ HasSquareWord(body)) THEN "square"
    ELSE IF HasMerchantName(body) THEN "manual"
    ELSE "unknown"

\* dict.update: the keys the format parser stored replace the defaults.
DictUpdate(base, upd) ==
    [f \in DOMAIN base |-> IF f \in DOMAIN upd /\ upd[f] # Absent THEN upd[f] ELSE base[f]]

_parse_issue(issue) ==
    LET src == DetectSource(issue.body)
        base == [EmptyData EXCEPT !["name"] = issue.title]
        parsed == CASE src = "square" -> _parse_square_format(issue.body)
                    [] src = "manual" -> _parse_manual_format(issue.body)
                    [] OTHER -> EmptyData
        Data(d) ==
            [name |-> d["name"], source |-> src, address |-> d["address"],
             lat |-> d["lat"], lon |-> d["lon"], category |-> d["category"],
             website |-> d["website"], phone |-> d["phone"], contact |-> d["contact"]]
        Updated(upd) == Bind(DictUpdate(base, upd), Data)
    IN  Bind(parsed, Updated)

\* Python truthiness of data.get(key): a missing key and '' are both falsy.
Truthy(v) == v # Absent /\ v # ""

(***************************************************************************)
(* The five phase-1 checks.  A check outcome keeps status, score and       *)
(* max_score; w is config['weights'].                                      *)
(***************************************************************************)
Max(a, b) == IF a >= b THEN a ELSE b
Min(a, b) == IF a <= b THEN a ELSE b

Outcome(status, score, max_score) ==
    [status |-> status, score |-> score, max_score |-> max_score]

\* _check_osm scoring 0 for a place the mapping service does not know.
_check_osm_penalised(w, data) == Outcome("fail", 0, w.osm_check)

\* max(5, int(max_score * 0.25)) for valid coordinates; float() cannot fail
\* on a value the decimal patterns or the map link captured.
_check_osm(w, data) ==
    IF ~Truthy(data.lat) \/ ~Truthy(data.lon)
    THEN Outcome("fail", 0, w.osm_check)
    ELSE Outcome("unclear", Max(5, w.osm_check \div 4), w.osm_check)

_check_website(w, data) ==
    IF ~Truthy(data.website)
    THEN Outcome("fail", 0, w.website_check)
    ELSE Outcome("unclear", 5, w.website_check)

\* website.startswith(('http://', 'https://'))
StartsWithScheme(website) == website \in SchemeUrlTokens
\* result['details']['website']: the normalized URL, absent without a website.
_check_website_details(data) ==
    IF ~Truthy(data.website) THEN Absent
    ELSE IF StartsWithScheme(data.website) THEN data.website
    ELSE "https://" \o data.website

_check_social_media(w, data) == Outcome("unclear", 5, w.social_media)

\* result['details']['discovered_handles'] = {}: the check finds no handle.
discovered_handles(data) == {}

\* _check_cross_reference failing also when the record has no address.
_check_cross_reference_address(w, data) ==
    IF ~Truthy(data.name) \/ ~Truthy(data.address)
    THEN Outcome("fail", 0, w.cross_reference)
    ELSE Outcome("unclear", 5, w.cross_reference)

_check_cross_reference(w, data) ==
    IF ~Truthy(data.name)
    THEN Outcome("fail", 0, w.cross_reference)
    ELSE Outcome("unclear", 5, w.cross_reference)

\* -90 <= lat <= 90 and -180 <= lon <= 180, on the float values.
ValidRange(lat, lon) ==
    /\ 0 - 900000 <= FloatOf(lat) /\ FloatOf(lat) <= 900000
    /\ 0 - 1800000 <= FloatOf(lon) /\ FloatOf(lon) <= 1800000

\* The raw points _check_data_consistency accumulates before capping.
ConsistencyPoints(data) ==
    (IF Truthy(data.address) THEN 3 ELSE 0)
    + (IF Truthy(data.lat) /\ Truthy(data.lon) /\ ValidRange(data.lat, data.lon) THEN 4 ELSE 0)
    + (IF Truthy(data.phone) THEN 2 ELSE 0)
    + (IF Truthy(data.category) THEN 1 ELSE 0)

\* _check_data_consistency taking the status from the capped score.
_check_data_consistency_capped(w, data) ==
    LET score == Min(ConsistencyPoints(data), w.data_consistency)
    IN  Outcome(IF score >= 5 THEN "pass" ELSE "partial", score, w.data_consistency)

_check_data_consistency(w, data) ==
    LET score == ConsistencyPoints(data)
    IN  Outcome(IF score >= 5 THEN "pass" ELSE "partial",
                Min(score, w.data_consistency), w.data_consistency)

CheckNames == {"osm", "website", "social", "cross_reference", "consistency"}

\* sum(check['score'] for check in checks.values())
SumScores(checks) ==
    checks.osm.score + checks.website.score + checks.social.score
    + checks.cross_reference.score + checks.consistency.score

\* Phase1Verifier.verify: the five checks in order, then the plain sum.
verify(w, issue) ==
    LET Checks(issue_data) ==
            [osm |-> _check_osm(w, issue_data),
             website |-> _check_website(w, issue_data),
             social |-> _check_social_media(w, issue_data),
             cross_reference |-> _check_cross_reference(w, issue_data),
             consistency |-> _check_data_consistency(w, issue_data)]
        Results(issue_data) ==
            LET Summed(checks) ==
                    [issue_number |-> issue.number,
                     merchant_name |-> issue_data.name,
                     checks |-> checks,
                     score |-> SumScores(checks),
                     max_score |-> 100,
                     issue_data |-> issue_data]
            IN  Bind(Checks(issue_data), Summed)
    IN  Bind(_parse_issue(issue), Results)

(***************************************************************************)
(* ConfidenceScorer                                                        *)
(***************************************************************************)
\* Python None, for result['phase1'] and result['phase2'].
None == [none |-> TRUE]

\* 'checks' not in phase1_results -> 0; else min(total_score, 100).
calculate_phase1_score(phase1_results) ==
    IF "checks" \notin DOMAIN phase1_results THEN 0
    ELSE Min(SumScores(phase1_results.checks), 100)

\* calculate_phase2_bonus granting both bonuses once either channel confirms.
calculate_phase2_bonus_both(pw, phase2_results) ==
    IF phase2_results = None THEN 0
    ELSE IF phase2_results.email.status = "confirmed"
            \/ phase2_results.social_dm.status = "confirmed"
         THEN pw.email_confirmation + pw.social_dm_confirmation
         ELSE 0

\* pw is the scorer's phase2_weights.
calculate_phase2_bonus(pw, phase2_results) ==
    IF phase2_results = None THEN 0
    ELSE (IF phase2_results.email.status = "confirmed" THEN pw.email_confirmation ELSE 0)
         + (IF phase2_results.social_dm.status = "confirmed"
            THEN pw.social_dm_confirmation ELSE 0)

calculate_final_score(pw, phase1_score, phase2_results) ==
    Min(phase1_score + calculate_phase2_bonus(pw, phase2_results), 100)

\* Python None in result['recommendation']: a string, as the tiers are, so
\* that it can be a key of _print_summary's dict beside them.
NoRecommendation == "None"
HIGH == "HIGH CONFIDENCE - Recommend Approval"
MEDIUM == "MEDIUM CONFIDENCE - Recommend Approval with Notes"
LOW == "LOW CONFIDENCE - Needs Human Review"
VERY_LOW == "VERY LOW CONFIDENCE - Recommend Rejection or More Info"

\* get_recommendation with the last comparison turned round.
get_recommendation_flipped(th, score) ==
    IF score >= th.high THEN HIGH
    ELSE IF score >= th.medium THEN MEDIUM
    ELSE IF score <= th.low THEN LOW
    ELSE VERY_LOW

\* get_recommendation with the medium tier starting one point late.
get_recommendation_strict(th, score) ==
    IF score >= th.high THEN HIGH
    ELSE IF score > th.medium THEN MEDIUM
    ELSE IF score >= th.low THEN LOW
    ELSE VERY_LOW

\* th is the scorer's thresholds.
get_recommendation(th, score) ==
    IF score >= th.high THEN HIGH
    ELSE IF score >= th.medium THEN MEDIUM
    ELSE IF score >= th.low THEN LOW
    ELSE VERY_LOW

_get_confidence_level(th, score) ==
    IF score >= th.high THEN "HIGH"
    ELSE IF score >= th.medium THEN "MEDIUM"
    ELSE IF score >= th.low THEN "LOW"
    ELSE "VERY LOW"

\* The order verify inserts the checks in, which .items() iterates in.
CheckOrder == <<"osm", "website", "social", "cross_reference", "consistency">>

\* One entry of recommendation['reasoning'].
Reasoning(subject, status) == [subject |-> subject, status |-> status]

\* ConfidenceScorer.get_detailed_recommendation
get_detailed_recommendation(th, score, phase1_results, phase2_results) ==
    LET has_checks == "checks" \in DOMAIN phase1_results
        Below(n) == 2 * phase1_results.checks[n].score < phase1_results.checks[n].max_score
        Weak(k) ==
            IF has_checks /\ Below(CheckOrder[k])
            THEN <<Reasoning(CheckOrder[k], phase1_results.checks[CheckOrder[k]].status)>>
            ELSE << >>
        email_status == IF phase2_results = None THEN "" ELSE phase2_results.email.status
        dm_status == IF phase2_results = None THEN "" ELSE phase2_results.social_dm.status
        reasoning ==
            Weak(1) \o Weak(2) \o Weak(3) \o Weak(4) \o Weak(5)
            \o (IF email_status = "confirmed"
                THEN <<Reasoning("Email verification", "confirmed")>> ELSE << >>)
            \o (IF dm_status = "confirmed"
                THEN <<Reasoning("Social DM verification", "confirmed")>> ELSE << >>)
        action_items ==
            (IF email_status = "sent" THEN <<"Waiting for email response">> ELSE << >>)
            \o (IF score < th.medium
                THEN <<"Consider physical verification by local tagger">>
                     \o (IF has_checks /\ phase1_results.checks.website.status = "fail"
                         THEN <<"Request website URL">> ELSE << >>)
                     \o (IF has_checks /\ phase1_results.checks.social.status = "fail"
                         THEN <<"Request social media handles">> ELSE << >>)
                ELSE << >>)
    IN  [score |-> score,
         level |-> _get_confidence_level(th, score),
         recommendation |-> get_recommendation(th, score),
         reasoning |-> reasoning,
         action_items |-> action_items]

(***************************************************************************)
(* Phase2Verifier                                                          *)
(***************************************************************************)
Channel(status, score, reason) == [status |-> status, score |-> score, reason |-> reason]

\* Placeholder: "for now, return empty".
\* _extract_email_from_website deriving an address from the site's host.
_extract_email_from_website_derived(website) == "info@" \o website

_extract_email_from_website(website) == ""

\* _verify_email granting the bonus as soon as the email is sent or drafted.
_verify_email_scored(auto_send, data) ==
    IF ~Truthy(data.contact) THEN Channel("skipped", 0, "No contact email available")
    ELSE IF auto_send THEN Channel("sent", 20, "")
    ELSE Channel("drafted", 20, "")

\* _verify_email drafting the email whatever auto_send says.
_verify_email_drafted(auto_send, data) ==
    IF ~Truthy(data.contact) THEN Channel("skipped", 0, "No contact email available")
    ELSE Channel("drafted", 0, "")

_verify_email(auto_send, data) ==
    LET given == IF Truthy(data.contact) THEN data.contact ELSE ""
        contact == IF given = "" /\ Truthy(data.website)
                   THEN _extract_email_from_website(data.website) ELSE given
    IN  IF contact = "" THEN Channel("skipped", 0, "No contact email available")
        ELSE IF auto_send THEN Channel("sent", 0, "")
        ELSE Channel("drafted", 0, "")

\* Both branches of auto_send set status 'drafted'.
_verify_social_dm(auto_send, data) == Channel("drafted", 0, "")

\* Phase2Verifier.verify on a phase-1 result that is a dict.
phase2_verify(auto_send, issue, phase1_results) ==
    LET Outreach(issue_data) ==
            LET email == IF Truthy(issue_data.contact) \/ Truthy(issue_data.website)
                         THEN _verify_email(auto_send, issue_data)
                         ELSE Channel("skipped", 0, "")
                social_dm == _verify_social_dm(auto_send, issue_data)
            IN  [issue_number |-> issue.number,
                 email |-> email,
                 social_dm |-> social_dm,
                 total_bonus |-> email.score + social_dm.score]
    IN  Bind(phase1_results.issue_data, Outreach)

(***************************************************************************)
(* Inputs                                                                  *)
(***************************************************************************)
Issue(number, title, body) == [number |-> number, title |-> title, body |-> body]

\* The three issues of GiteaClient._get_mock_issues, on the lines the
\* extraction rules read.
SquareIssue ==
    Issue(12079, "Coldwater Mountain Brewpub",
          << Line("Id", "8378"), Line("Origin", "square"),
             Line("Name", "Coldwater Mountain Brewpub"),
             Line("Category", "bar_club_lounge"),
             Line("\"address\"", "1208 Walnut Ave Anniston AL 36201 US"),
             LinkLine("OpenStreetMap viewer link", "33.650462", "-85.834185") >>)

NoWebsiteIssue ==
    Issue(12080, "Borjulink communications Eastlands",
          << Line("Merchant name", "Borjulink communications Eastlands"),
             Line("Address", "Cdf manyanja Road"),
             Line("Lat", "40.7128"), Line("Long", "-74.0060"),
             LinkLine("OSM", "33.650462", "-85.834185"),
             Line("Category", "Phone accessories shop"),
             Line("Website", ""), Line("Phone", "+1-555-0123"),
             Line("Contact", "owner@pizzapalace.example.com") >>)

FullIssue ==
    Issue(12081, "Pizza Palace Downtown",
          << Line("Merchant name", "Pizza Palace Downtown"),
             Line("Address", "123 Main St, New York, NY 10001"),
             Line("Lat", "40.7128"), Line("Long", "-74.0060"),
             Line("Category", "Restaurant"),
             Line("Website", "https://pizzapalace.example.com"),
             Line("Phone", "+1-555-0123"),
             Line("Contact", "owner@pizzapalace.example.com") >>)

\* A submission in neither format: only the title is populated.
FreeTextIssue ==
    Issue(12082, "Corner Cafe", << Line("", "We accept bitcoin at the counter") >>)

\* A manual submission with a 'Lat:' line, no 'Long:' line and no map link.
LatOnlyIssue ==
    Issue(12083, "Lat Only Kiosk",
          << Line("Merchant name", "Lat Only Kiosk"), Line("Lat", "40.7128"),
             Line("Website", "pizzapalace.example.com") >>)

\* Coordinates outside -90..90, and an empty title in an unknown format.
OutOfRangeIssue ==
    Issue(12084, "Far North",
          << Line("Merchant name", "Far North"), Line("Lat", "95.5000"),
             Line("Long", "-74.0060"), Line("Phone", "+1-555-0123") >>)
UntitledIssue == Issue(12085, "", << >>)
\* A manual submission whose website is written with an upper-case scheme.
UpperSchemeIssue ==
    Issue(12086, "Shouting Bakery",
          << Line("Merchant name", "Shouting Bakery"),
             Line("Website", "HTTPS://pizzapalace.example.com") >>)
\* An imported submission whose name line holds only a blank.
BlankNameIssue ==
    Issue(12087, "Blank Name Cafe",
          << Line("Origin", "square"), Line("Name", Spaces) >>)

CheckIssues ==
    {SquareIssue, NoWebsiteIssue, FullIssue, FreeTextIssue, LatOnlyIssue,
     OutOfRangeIssue, UntitledIssue, UpperSchemeIssue, BlankNameIssue}

Weights(o, w, s, c, d) ==
    [osm_check |-> o, website_check |-> w, social_media |-> s,
     cross_reference |-> c, data_consistency |-> d]

\* The weights ConfidenceScorer.__init__ documents.
DocumentedWeights == Weights(20, 30, 20, 20, 10)

\* Weight tables a configuration file can hold (no validation on load).
WeightTables ==
    {Weights(o, w, s, c, d) : o \in {0, 3, 20, 400}, w \in {0, 3, 30},
                              s \in {3, 20}, c \in {3, 20}, d \in {0, 4, 10}}

Thresholds(h, m, l) == [high |-> h, medium |-> m, low |-> l]
DocumentedThresholds == Thresholds(90, 70, 50)
Phase2Weights(e, d) == [email_confirmation |-> e, social_dm_confirmation |-> d]
DocumentedPhase2Weights == Phase2Weights(20, 15)

\* The configurations the batch runs are explored under.  _load_config
\* validates nothing, so the table with osm_check 400 and a phase1_threshold
\* above 100 load like any other.
Configs ==
    [weights : {DocumentedWeights, Weights(400, 30, 20, 20, 10)},
     phase2_weights : {DocumentedPhase2Weights},
     thresholds : {DocumentedThresholds, Thresholds(30, 20, 10)},
     phase1_threshold : {25, 70, 200},
     enable_phase1 : BOOLEAN,
     enable_phase2 : BOOLEAN,
     post_phase1_immediately : BOOLEAN,
     update_phase1_comment : BOOLEAN,
     phase2_auto_send : BOOLEAN]

MaxBatch == 2
BatchIssues == {FullIssue, SquareIssue, FreeTextIssue}
\* What gitea.fetch_issues can answer: up to MaxBatch open issues.
Batches == UNION {[1..n -> BatchIssues] : n \in 0..MaxBatch}

\* Comment ids the issue tracker answers post_comment with (12345 is the
\* reference client's).
CommentIds == {12345, 12346}

(***************************************************************************)
(* State                                                                   *)
(***************************************************************************)
VARIABLES
    config,     \* TriageOrchestrator.config
    issues,     \* the list run() fetched
    idx,        \* the loop variable i of run(), 0 before the loop
    pc,         \* where run() / _process_issue stands
    result,     \* the result dict _process_issue is building, or None
    results,    \* the results list of run()
    calls,      \* the calls made on the issue tracker, in order
    summary,    \* what _print_summary reported, None before it ran
    call        \* a single call of one function: its arguments and what it returned

pipe == <<config, issues, idx, pc, result, results, calls, summary>>
vars == <<config, issues, idx, pc, result, results, calls, summary, call>>

NoCall == [fn |-> "none", done |-> TRUE]

(***************************************************************************)
(* TriageOrchestrator.run and _process_issue                               *)
(***************************************************************************)
Init ==
    /\ config \in Configs
    /\ issues = << >>
    /\ idx = 0
    /\ pc = "run"
    /\ result = None
    /\ results = << >>
    /\ calls = << >>
    /\ summary = None
    /\ call = NoCall

\* issues = self.gitea.fetch_issues(...); an empty list returns at once.
fetch_issues ==
    /\ pc = "run"
    /\ \E b \in Batches :
          /\ issues' = b
          /\ idx' = IF b = << >> THEN 0 ELSE 1
          /\ pc' = IF b = << >> THEN "done" ELSE "process"
    /\ UNCHANGED <<config, result, results, calls, call, summary>>

\* Where the loop goes once results holds the entry of issue idx.
AfterIssue == IF idx < Len(issues) THEN "delay" ELSE "summary"

\* run() without the except clause: the exception leaves the loop.
OnException_abort(msg) ==
    /\ results' = results
    /\ result' = None
    /\ pc' = "aborted"

\* except Exception as e: the error entry is appended and the loop goes on.
OnException(msg) ==
    /\ results' = Append(results,
                         [issue_number |-> issues[idx].number, error |-> msg,
                          status |-> "error"])
    /\ result' = None
    /\ pc' = AfterIssue

\* results.insert(0, result) in place of the append.
OnReturn_prepend(res) ==
    /\ results' = <<res>> \o results
    /\ result' = None
    /\ pc' = AfterIssue

\* return result; results.append(result)
OnReturn(res) ==
    /\ results' = Append(results, res)
    /\ result' = None
    /\ pc' = AfterIssue

\* The result dict _process_issue starts from.
NewResult(issue) ==
    [issue_number |-> issue.number, title |-> issue.title, phase1 |-> None,
     phase2 |-> None, final_score |-> 0, recommendation |-> NoRecommendation,
     comments_posted |-> << >>]

process_issue ==
    /\ pc = "process"
    /\ result' = NewResult(issues[idx])
    /\ pc' = IF config.enable_phase1 THEN "phase1" ELSE "phase2"
    /\ UNCHANGED <<config, issues, idx, results, calls, call, summary>>

\* phase1_results = self.phase1.verify(issue); result['phase1'] = phase1_results
run_phase1 ==
    /\ pc = "phase1"
    /\ result' = [result EXCEPT !.phase1 = verify(config.weights, issues[idx])]
    /\ pc' = IF config.post_phase1_immediately THEN "post_phase1" ELSE "threshold"
    /\ UNCHANGED <<config, issues, idx, results, calls, call, summary>>

GiteaCall(op, report, id, ok) ==
    [op |-> op, at |-> idx, issue |-> issues[idx].number, report |-> report,
     id |-> id, ok |-> ok]

\* _post_phase1_report: the comment is posted, or the request fails.
post_phase1_report ==
    /\ pc = "post_phase1"
    /\ \/ \E id \in CommentIds :
             /\ calls' = Append(calls, GiteaCall("post_comment", "phase1", id, TRUE))
             /\ result' = [result EXCEPT
                              !.comments_posted = Append(@, <<"phase1", id>>)]
             /\ pc' = "threshold"
             /\ UNCHANGED results
       \/ /\ calls' = Append(calls, GiteaCall("post_comment", "phase1", 0, FALSE))
          /\ OnException("post_comment failed")
    /\ UNCHANGED <<config, issues, idx, call, summary>>

\* if phase1_score >= self.config['phase1_threshold']: skip Phase 2.
check_threshold ==
    /\ pc = "threshold"
    /\ LET phase1_score == result.phase1.score
       IN  IF phase1_score >= config.phase1_threshold
           THEN /\ result' = [result EXCEPT
                                 !.final_score = phase1_score,
                                 !.recommendation =
                                     get_recommendation(config.thresholds, phase1_score)]
                /\ pc' = "final_report"
           ELSE /\ pc' = "phase2"
                /\ UNCHANGED result
    /\ UNCHANGED <<config, issues, idx, results, calls, call, summary>>

\* if self.config['enable_phase2']: ... ; return result
run_phase2 ==
    /\ pc = "phase2"
    /\ \/ /\ ~config.enable_phase2
          /\ OnReturn(result)
       \/ /\ config.enable_phase2
          /\ result.phase1 = None
          \* phase1_results.get('issue_data', {}) on None
          /\ OnException("'NoneType' object has no attribute 'get'")
       \/ /\ config.enable_phase2
          /\ result.phase1 # None
          /\ LET phase2_results ==
                     phase2_verify(config.phase2_auto_send, issues[idx], result.phase1)
                 final_score ==
                     calculate_final_score(config.phase2_weights, result.phase1.score,
                                           phase2_results)
             IN  result' = [result EXCEPT
                               !.phase2 = phase2_results,
                               !.final_score = final_score,
                               !.recommendation =
                                   get_recommendation(config.thresholds, final_score)]
          /\ pc' = "final_report"
          /\ UNCHANGED results
    /\ UNCHANGED <<config, issues, idx, calls, call, summary>>

\* _generate_final_report evaluates result.get('phase2', {}).get('email', {}):
\* the key is present, so with result['phase2'] None it raises AttributeError.
FinalReportRaises(res) == res.phase2 = None

\* _post_final_report, then comments_posted.append(('final', id)); return result
post_final_report ==
    /\ pc = "final_report"
    /\ \/ /\ FinalReportRaises(result)
          /\ OnException("'NoneType' object has no attribute 'get'")
          /\ UNCHANGED calls
       \/ /\ ~FinalReportRaises(result)
          /\ config.update_phase1_comment /\ Len(result.comments_posted) > 0
          /\ LET comment_id == result.comments_posted[1][2]
             IN  \/ /\ calls' = Append(calls,
                                       GiteaCall("update_comment", "final", comment_id, TRUE))
                    /\ OnReturn([result EXCEPT
                                    !.comments_posted = Append(@, <<"final", comment_id>>)])
                 \/ /\ calls' = Append(calls,
                                       GiteaCall("update_comment", "final", comment_id, FALSE))
                    /\ OnException("update_comment failed")
       \/ /\ ~FinalReportRaises(result)
          /\ ~(config.update_phase1_comment /\ Len(result.comments_posted) > 0)
          /\ \/ \E id \in CommentIds :
                   /\ calls' = Append(calls, GiteaCall("post_comment", "final", id, TRUE))
                   /\ OnReturn([result EXCEPT
                                   !.comments_posted = Append(@, <<"final", id>>)])
             \/ /\ calls' = Append(calls, GiteaCall("post_comment", "final", 0, FALSE))
                /\ OnException("post_comment failed")
    /\ UNCHANGED <<config, issues, idx, call, summary>>

\* if i < len(issues): time.sleep(delay); then the next issue.
rate_limit_delay ==
    /\ pc = "delay"
    /\ idx' = idx + 1
    /\ pc' = "process"
    /\ UNCHANGED <<config, issues, result, results, calls, call, summary>>

\* The entries _print_summary counts as errors: r.get('status') == 'error'.
ErrorEntries(rs) ==
    {k \in 1..Len(rs) : "status" \in DOMAIN rs[k] /\ rs[k].status = "error"}
\* The entries it counts by recommendation: 'recommendation' in r.
RecommendationEntries(rs) == {k \in 1..Len(rs) : "recommendation" \in DOMAIN rs[k]}

\* _print_summary: the counts it prints.  sorted(recommendations.items())
\* raises TypeError when None and a tier string are both keys.
_print_summary(rs) ==
    LET total == Len(rs)
        errors == Cardinality(ErrorEntries(rs))
        keys == {rs[k].recommendation : k \in RecommendationEntries(rs)}
        recommendations ==
            [rec \in keys |->
                Cardinality({k \in RecommendationEntries(rs) : rs[k].recommendation = rec})]
    IN  [total |-> total, completed |-> total - errors, errors |-> errors,
         recommendations |-> recommendations,
         raised |-> NoRecommendation \in keys /\ Cardinality(keys) > 1]

\* self._print_summary(results), after the loop; an exception of it leaves
\* run() and main exits with status 1.
print_summary ==
    /\ pc = "summary"
    /\ summary' = _print_summary(results)
    /\ pc' = IF summary'.raised THEN "failed" ELSE "done"
    /\ UNCHANGED <<config, issues, idx, result, results, calls, call>>

Next ==
    \/ fetch_issues
    \/ process_issue
    \/ run_phase1
    \/ post_phase1_report
    \/ check_threshold
    \/ run_phase2
    \/ post_final_report
    \/ rate_limit_delay
    \/ print_summary

Spec == Init /\ [][Next]_vars

\* KeyboardInterrupt while run() is in its loop: it is no Exception, so the
\* except clause of the loop lets it pass; run() is left without a summary,
\* its local list results goes with its frame, and main prints
\* "Interrupted by user. Exiting..." and exits with status 0.
interrupt ==
    /\ pc \in {"process", "phase1", "post_phase1", "threshold", "phase2",
               "final_report", "delay"}
    /\ pc' = "interrupted"
    /\ result' = None
    /\ results' = << >>
    /\ UNCHANGED <<config, issues, idx, calls, call, summary>>

NextInterrupt == Next \/ interrupt

\* The batch run with an external interrupt possible at any point of the loop.
SpecInterrupt == Init /\ [][NextInterrupt]_vars

(***************************************************************************)
(* Single calls of the verifier and scorer functions, on inputs drawn from *)
(* bounded sets: call holds the arguments, and the value returned once     *)
(* done.                                                                   *)
(***************************************************************************)
MaxLines == 3

\* The lines submission bodies are built from.
LinePool ==
    {Line("Merchant name", "Pizza Palace Downtown"),
     Line("Merchant name", ""),
     Line("Merchant name", Spaces),
     Line("Origin", "square"),
     Line("Id", "8378"),
     Line("Address", "123 Main St"),
     Line("Address", "n/a"),
     Line("Lat", "40.7128"),
     Line("lat", "95.5000"),
     Line("Long", "-74.0060"),
     LinkLine("OSM", "33.650462", "-85.834185"),
     Line("Website", "pizzapalace.example.com"),
     Line("Phone", "+1-555-0123"),
     Line("Contact", "owner@pizzapalace.example.com"),
     Line("Category", "None")}

Bodies == UNION {[1..n -> LinePool] : n \in 0..MaxLines}
BodyIssues == {Issue(12090, "Submitted Title", b) : b \in Bodies}

ParseCalls ==
    {[fn |-> "_parse_issue", issue |-> i, done |-> FALSE, data |-> None] :
        i \in BodyIssues}

VerifyCalls ==
    {[fn |-> "verify", weights |-> w, issue |-> i, done |-> FALSE, phase1 |-> None] :
        w \in WeightTables, i \in CheckIssues}

Phase2Calls ==
    {[fn |-> "phase2_verify", weights |-> w, auto_send |-> a, issue |-> i,
      done |-> FALSE, phase2 |-> None, phase1_score |-> 0, final_score |-> 0] :
        w \in {DocumentedWeights, Weights(400, 30, 20, 20, 10)}, a \in BOOLEAN,
        i \in CheckIssues \cup BodyIssues}

\* Scores around every threshold in use, and above 100.
Scores == {0, 35, 39, 40, 41, 49, 50, 51, 69, 70, 71, 89, 90, 91, 100, 125}
\* Threshold tables a configuration file can hold: the documented one, one
\* that is not decreasing and one that is not strictly decreasing.
ThresholdTables ==
    {DocumentedThresholds, Thresholds(50, 70, 40), Thresholds(70, 70, 50)}

RecommendCalls ==
    {[fn |-> "get_recommendation", thresholds |-> th, s1 |-> a, s2 |-> b,
      done |-> FALSE, r1 |-> "", r2 |-> ""] :
        th \in ThresholdTables, a \in Scores, b \in Scores}

Statuses == {"skipped", "pending", "drafted", "sent", "confirmed", "denied"}
OutreachResults ==
    {None} \cup
    {[email |-> Channel(e, 0, ""), social_dm |-> Channel(d, 0, "")] :
        e \in Statuses, d \in Statuses}
Phase2WeightTables == {DocumentedPhase2Weights, Phase2Weights(0, 15), Phase2Weights(7, 7)}

BonusCalls ==
    {[fn |-> "calculate_phase2_bonus", phase2_weights |-> pw, phase2_results |-> p2,
      done |-> FALSE, bonus |-> 0] : pw \in Phase2WeightTables, p2 \in OutreachResults}

\* Check outcomes by score alone, as the scorer reads them.
ScoredChecks ==
    {[osm |-> Outcome("unclear", o, 20), website |-> Outcome("unclear", w, 30),
      social |-> Outcome("unclear", 5, 20),
      cross_reference |-> Outcome("unclear", c, 20),
      consistency |-> Outcome("pass", d, 10)] :
        o \in {0, 5, 10, 100}, w \in {0, 5}, c \in {0, 5}, d \in {0, 8, 10}}

ExplainCalls ==
    {[fn |-> "explain_score", thresholds |-> DocumentedThresholds,
      phase2_weights |-> DocumentedPhase2Weights, phase1_results |-> p1,
      phase2_results |-> p2, done |-> FALSE, phase1_total |-> 0, final_score |-> 0,
      recommendation |-> ""] :
        p1 \in {[checks |-> c] : c \in ScoredChecks} \cup {[issue_number |-> 12081]},
        p2 \in OutreachResults}

\* _check_website on the record of every modelled issue.
WebsiteCalls ==
    {[fn |-> "_check_website", weights |-> w, data |-> _parse_issue(i),
      done |-> FALSE, outcome |-> None, website |-> Absent] :
        w \in {DocumentedWeights, Weights(3, 3, 3, 3, 10)}, i \in CheckIssues}

\* get_detailed_recommendation on the phase-1 result of every modelled issue,
\* with and without an outreach result, at the phase-1 score and 60 above it.
DetailCalls ==
    {[fn |-> "get_detailed_recommendation", thresholds |-> th, weights |-> w,
      issue |-> i, bonus |-> b, phase2_results |-> p2, done |-> FALSE,
      phase1 |-> None, detail |-> None] :
        th \in {DocumentedThresholds, Thresholds(30, 20, 10)},
        w \in {DocumentedWeights, Weights(3, 3, 3, 3, 10)},
        i \in CheckIssues, b \in {0, 60},
        p2 \in {None,
                [email |-> Channel("sent", 0, ""), social_dm |-> Channel("drafted", 0, "")],
                [email |-> Channel("confirmed", 0, ""),
                 social_dm |-> Channel("confirmed", 0, "")]}}

InitUnits ==
    /\ config = [weights |-> DocumentedWeights,
                 phase2_weights |-> DocumentedPhase2Weights,
                 thresholds |-> DocumentedThresholds,
                 phase1_threshold |-> 70,
                 enable_phase1 |-> TRUE, enable_phase2 |-> TRUE,
                 post_phase1_immediately |-> TRUE, update_phase1_comment |-> FALSE,
                 phase2_auto_send |-> FALSE]
    /\ issues = << >>
    /\ idx = 0
    /\ pc = "idle"
    /\ result = None
    /\ results = << >>
    /\ calls = << >>
    /\ summary = None
    /\ \/ call \in ParseCalls
       \/ call \in VerifyCalls
       \/ call \in Phase2Calls
       \/ call \in RecommendCalls
       \/ call \in BonusCalls
       \/ call \in ExplainCalls
       \/ call \in WebsiteCalls
       \/ call \in DetailCalls

Pending(fn) == call.fn = fn /\ ~call.done

call_parse_issue ==
    /\ Pending("_parse_issue")
    /\ call' = [call EXCEPT !.done = TRUE, !.data = _parse_issue(call.issue)]
    /\ UNCHANGED pipe

call_verify ==
    /\ Pending("verify")
    /\ call' = [call EXCEPT !.done = TRUE, !.phase1 = verify(call.weights, call.issue)]
    /\ UNCHANGED pipe

\* Phase2Verifier.verify on the phase-1 result of the same issue, and the
\* final score _process_issue computes from the two.
call_phase2_verify ==
    /\ Pending("phase2_verify")
    /\ \E phase1_results \in {verify(call.weights, call.issue)} :
          \E phase2_results \in {phase2_verify(call.auto_send, call.issue,
                                               phase1_results)} :
             call' = [call EXCEPT
                         !.done = TRUE,
                         !.phase2 = phase2_results,
                         !.phase1_score = phase1_results.score,
                         !.final_score =
                             calculate_final_score(DocumentedPhase2Weights,
                                                   phase1_results.score,
                                                   phase2_results)]
    /\ UNCHANGED pipe

call_get_recommendation ==
    /\ Pending("get_recommendation")
    /\ call' = [call EXCEPT
                   !.done = TRUE,
                   !.r1 = get_recommendation(call.thresholds, call.s1),
                   !.r2 = get_recommendation(call.thresholds, call.s2)]
    /\ UNCHANGED pipe

call_calculate_phase2_bonus ==
    /\ Pending("calculate_phase2_bonus")
    /\ call' = [call EXCEPT
                   !.done = TRUE,
                   !.bonus = calculate_phase2_bonus(call.phase2_weights,
                                                    call.phase2_results)]
    /\ UNCHANGED pipe

\* explain_score: phase1_total, final_score and the recommendation of it.
call_explain_score ==
    /\ Pending("explain_score")
    /\ LET phase1_total == calculate_phase1_score(call.phase1_results)
           final_score == calculate_final_score(call.phase2_weights, phase1_total,
                                                call.phase2_results)
       IN  call' = [call EXCEPT
                       !.done = TRUE,
                       !.phase1_total = phase1_total,
                       !.final_score = final_score,
                       !.recommendation =
                           get_recommendation(call.thresholds, final_score)]
    /\ UNCHANGED pipe

call_check_website ==
    /\ Pending("_check_website")
    /\ call' = [call EXCEPT
                   !.done = TRUE,
                   !.outcome = _check_website(call.weights, call.data),
                   !.website = _check_website_details(call.data)]
    /\ UNCHANGED pipe

call_get_detailed_recommendation ==
    /\ Pending("get_detailed_recommendation")
    /\ \E phase1_results \in {verify(call.weights, call.issue)} :
          call' = [call EXCEPT
                      !.done = TRUE,
                      !.phase1 = phase1_results,
                      !.detail =
                          get_detailed_recommendation(call.thresholds,
                                                      phase1_results.score + call.bonus,
                                                      phase1_results,
                                                      call.phase2_results)]
    /\ UNCHANGED pipe

NextUnits ==
    \/ call_parse_issue
    \/ call_verify
    \/ call_phase2_verify
    \/ call_get_recommendation
    \/ call_calculate_phase2_bonus
    \/ call_explain_score
    \/ call_check_website
    \/ call_get_detailed_recommendation

SpecUnits == InitUnits /\ [][NextUnits]_vars

Returned(fn) == call.fn = fn /\ call.done

(***************************************************************************)
(* Properties                                                              *)
(***************************************************************************)
\* C1: every check outcome of Phase1Verifier.verify has 0 <= score <=
\* max_score, max_score being the check's configured weight, for every
\* weight table (weights below 5 included) and every record.
C1_ScoreWithinMax ==
    Returned("verify") =>
        LET w == call.weights
            c == call.phase1.checks
        IN  /\ c.osm.max_score = w.osm_check
            /\ c.website.max_score = w.website_check
            /\ c.social.max_score = w.social_media
            /\ c.cross_reference.max_score = w.cross_reference
            /\ c.consistency.max_score = w.data_consistency
            /\ \A n \in CheckNames : 0 <= c[n].score /\ c[n].score <= c[n].max_score

\* C2: the aggregate score of every Phase1Result that verify returns equals
\* min(100, sum of the per-check scores), also when the scores sum above 100.
C2_AggregateCapped ==
    Returned("verify") =>
        call.phase1.score = Min(100, SumScores(call.phase1.checks))

\* The bonus the outreach outcome p2 earns under the weights pw: each
\* channel's weight when that channel is confirmed.
ConfirmedBonus(pw, p2) ==
    (IF p2.email.status = "confirmed" THEN pw.email_confirmation ELSE 0)
    + (IF p2.social_dm.status = "confirmed" THEN pw.social_dm_confirmation ELSE 0)

\* C3: whenever the pipeline has computed a final score from a phase-1 score
\* and an outreach outcome, it equals min(100, phase-1 score + bonus) and is
\* not smaller than the phase-1 score.
C3_FinalScore ==
    (pc = "final_report" /\ result.phase2 # None) =>
        /\ result.final_score =
               Min(100, result.phase1.score
                        + ConfirmedBonus(config.phase2_weights, result.phase2))
        /\ result.final_score >= result.phase1.score

Ordered(th) == th.high > th.medium /\ th.medium > th.low
Tier(r) ==
    CASE r = HIGH -> 3
      [] r = MEDIUM -> 2
      [] r = LOW -> 1
      [] OTHER -> 0

\* C4: with thresholds high > medium > low, the recommendation of a higher
\* score is never a lower tier than the recommendation of a lower score.
C4_Monotonic ==
    (Returned("get_recommendation") /\ Ordered(call.thresholds) /\ call.s1 > call.s2) =>
        Tier(call.r1) >= Tier(call.r2)

C4_Witness ==
    /\ Returned("get_recommendation") /\ Ordered(call.thresholds)
    /\ call.s1 > call.s2
    /\ call.r1 = HIGH /\ call.r2 = LOW

\* The tier the ranges of C5 give a score.
TierByRange(th, score, r) ==
    /\ r = HIGH <=> score >= th.high
    /\ r = MEDIUM <=> (th.medium <= score /\ score < th.high)
    /\ r = LOW <=> (th.low <= score /\ score < th.medium)
    /\ r = VERY_LOW <=> score < th.low

IsScenarioC(c) ==
    /\ c.osm.score = 10 /\ c.website.score = 5 /\ c.social.score = 5
    /\ c.cross_reference.score = 5 /\ c.consistency.score = 10

\* C5: under the configured thresholds (high > medium > low) the
\* recommendation is the high tier iff score >= high, the medium tier iff
\* medium <= score < high, the low tier iff low <= score < medium and the
\* very-low tier iff score < low; check scores {10,5,5,5,10} give phase-1
\* score 35 and, with thresholds 90/70/50 and no outreach bonus, the
\* very-low tier.
C5_TiersByRange ==
    /\ (Returned("get_recommendation") /\ Ordered(call.thresholds)) =>
           /\ TierByRange(call.thresholds, call.s1, call.r1)
           /\ TierByRange(call.thresholds, call.s2, call.r2)
    /\ (Returned("explain_score") /\ "checks" \in DOMAIN call.phase1_results) =>
           (IsScenarioC(call.phase1_results.checks) =>
               /\ call.phase1_total = 35
               /\ (call.phase2_results = None => call.recommendation = VERY_LOW))

C5_Witness ==
    /\ Returned("get_recommendation")
    /\ call.thresholds = DocumentedThresholds
    /\ call.s1 = 70 /\ call.r1 = MEDIUM
    /\ call.s2 = 35 /\ call.r2 = VERY_LOW

IsError(r) == "status" \in DOMAIN r
\* The phase-1 score of the k-th fetched submission.
Phase1ScoreOf(k) == verify(config.weights, issues[k]).score
CallsAt(k, op, ok) ==
    {n \in 1..Len(calls) : calls[n].at = k /\ calls[n].op = op /\ calls[n].ok = ok}
NoRequestFailedAt(k) == \A n \in 1..Len(calls) : calls[n].at = k => calls[n].ok

\* C6: a submission whose phase-1 score is >= phase1_threshold gets a
\* result with no phase 2, final score = phase-1 score, the recommendation
\* of that score, and exactly one report posted (stated for submissions
\* during which no request to the issue tracker failed).
C6_SkipPhase2 ==
    \A k \in 1..Len(results) :
        (config.enable_phase1 /\ NoRequestFailedAt(k)) =>
            \A p1 \in {Phase1ScoreOf(k)} :
                p1 >= config.phase1_threshold =>
                    /\ ~IsError(results[k])
                    /\ results[k].phase2 = None
                    /\ results[k].final_score = p1
                    /\ results[k].recommendation =
                           get_recommendation(config.thresholds, p1)
                    /\ Cardinality(CallsAt(k, "post_comment", TRUE)) = 1

\* The number of submissions run()'s loop has finished with.
Finished ==
    CASE pc \in {"run", "idle"} -> 0
      [] pc \in {"process", "phase1", "post_phase1", "threshold", "phase2",
                 "final_report"} -> idx - 1
      [] pc = "delay" -> idx
      [] OTHER -> Len(issues)

\* C7: a failure while processing submission k never aborts the batch: the
\* k-th entry of results is the result of submission k or the error entry
\* {issue_number, error, status = 'error'} for it, results grows by one entry
\* per submission, and the run only ends after the last submission, with
\* one entry per fetched submission.
C7_BatchSurvivesFailure ==
    /\ Len(results) = Finished
    /\ \A k \in 1..Len(results) :
          /\ results[k].issue_number = issues[k].number
          /\ IsError(results[k]) =>
                /\ DOMAIN results[k] = {"issue_number", "error", "status"}
                /\ results[k].status = "error"
    /\ ~ENABLED Next => (pc = "done" /\ Len(results) = Len(issues))

C7_Witness ==
    /\ pc = "done"
    /\ Len(results) = 2
    /\ IsError(results[1])
    /\ ~IsError(results[2])

\* C8: the extracted record never has exactly one of latitude / longitude.
C8_CoordinatePair ==
    Returned("_parse_issue") =>
        (call.data.lat = Absent <=> call.data.lon = Absent)

\* C9: calculate_phase2_bonus is the email weight iff the email channel is
\* 'confirmed' plus the DM weight iff the social_dm channel is 'confirmed';
\* email confirmed (20) with social_dm pending (15) gives exactly 20.
C9_Phase2Bonus ==
    Returned("calculate_phase2_bonus") =>
        LET pw == call.phase2_weights
            p2 == call.phase2_results
            email == p2 # None /\ p2.email.status = "confirmed"
            dm == p2 # None /\ p2.social_dm.status = "confirmed"
        IN  /\ (email /\ dm) => call.bonus = pw.email_confirmation + pw.social_dm_confirmation
            /\ (email /\ ~dm) => call.bonus = pw.email_confirmation
            /\ (~email /\ dm) => call.bonus = pw.social_dm_confirmation
            /\ (~email /\ ~dm) => call.bonus = 0
            /\ (/\ pw = DocumentedPhase2Weights /\ email
                /\ p2.social_dm.status = "pending") => call.bonus = 20

C9_Witness ==
    /\ Returned("calculate_phase2_bonus")
    /\ call.phase2_weights = DocumentedPhase2Weights
    /\ call.phase2_results # None
    /\ call.phase2_results.email.status = "confirmed"
    /\ call.phase2_results.social_dm.status = "pending"
    /\ call.bonus = 20

\* C10: every outreach outcome Phase2Verifier.verify returns has score > 0
\* only when its status is 'confirmed'; on a first pass both channels carry
\* score 0, total_bonus is 0 and the final score gains nothing over the
\* (capped) phase-1 score.
C10_NoFirstPassPoints ==
    Returned("phase2_verify") =>
        /\ \A ch \in {call.phase2.email, call.phase2.social_dm} :
              /\ ch.score > 0 => ch.status = "confirmed"
              /\ ch.score = 0
        /\ call.phase2.total_bonus = 0
        /\ call.final_score = Min(100, call.phase1_score)

C10_Witness ==
    /\ Returned("phase2_verify")
    /\ call.phase2.email.status = "sent"
    /\ call.phase2.social_dm.status = "drafted"
    /\ call.phase1_score > 0

\* The points the data-consistency rubric gives each part of a record d.
AddressPoints(d) == IF d.address \notin {Absent, ""} THEN 3 ELSE 0
CoordinatePoints(d) ==
    IF /\ d.lat \notin {Absent, ""} /\ d.lon \notin {Absent, ""}
       /\ FloatOf(d.lat) >= 0 - 900000 /\ FloatOf(d.lat) <= 900000
       /\ FloatOf(d.lon) >= 0 - 1800000 /\ FloatOf(d.lon) <= 1800000
    THEN 4 ELSE 0
PhonePoints(d) == IF d.phone \notin {Absent, ""} THEN 2 ELSE 0
CategoryPoints(d) == IF d.category \notin {Absent, ""} THEN 1 ELSE 0
RawPoints(d) == AddressPoints(d) + CoordinatePoints(d) + PhonePoints(d) + CategoryPoints(d)

\* C11: the data-consistency outcome of verify has score = min(configured
\* data_consistency weight, raw points), raw points being address +3, valid
\* coordinates +4, phone +2, category +1, and status 'pass' iff the raw
\* points are >= 5, else 'partial'; a record with all four scores
\* min(configured weight, 10).
C11_DataConsistency ==
    Returned("verify") =>
        LET d == call.phase1.issue_data
            c == call.phase1.checks.consistency
            max == call.weights.data_consistency
        IN  /\ c.max_score = max
            /\ c.score = Min(max, RawPoints(d))
            /\ c.status = (IF RawPoints(d) >= 5 THEN "pass" ELSE "partial")
            /\ (/\ AddressPoints(d) = 3 /\ CoordinatePoints(d) = 4
                /\ PhonePoints(d) = 2 /\ CategoryPoints(d) = 1) => c.score = Min(max, 10)

\* Scenario A under a weight below the raw points: capped score, status pass.
C11_Witness ==
    /\ Returned("verify")
    /\ call.issue = FullIssue
    /\ call.weights.data_consistency = 4
    /\ call.phase1.checks.consistency = Outcome("pass", 4, 4)

\* A URL that carries its scheme (a scheme is case-insensitive).
HasUrlScheme(u) == u \in SchemeUrlTokens \cup UpperSchemeUrlTokens

\* C12: the website check returns status 'fail' with score 0 exactly when
\* the record has no website; with a website it returns a non-fail status
\* with the baseline score 5 and records the record's URL, prefixed with
\* 'https://' when its scheme is missing and unchanged otherwise.
C12_WebsiteCheck ==
    Returned("_check_website") =>
        LET present == call.data.website \notin {Absent, ""}
        IN  /\ (call.outcome.status = "fail" /\ call.outcome.score = 0) <=> ~present
            /\ present =>
                  /\ call.outcome.status # "fail"
                  /\ call.outcome.score = 5
                  /\ call.website =
                         (IF HasUrlScheme(call.data.website) THEN call.data.website
                          ELSE "https://" \o call.data.website)

\* C13: the location check of verify returns status 'fail' with score 0
\* when latitude or longitude is absent from the record, and status
\* 'unclear' with the baseline max(5, 25% of the weight) when both are
\* present, whatever the mapping service knows; verify always returns.
C13_LocationCheck ==
    /\ Returned("verify") =>
          LET d == call.phase1.issue_data
              osm == call.phase1.checks.osm
              w == call.weights.osm_check
          IN  IF d.lat \in {Absent, ""} \/ d.lon \in {Absent, ""}
              THEN osm = Outcome("fail", 0, w)
              ELSE /\ osm.status = "unclear"
                   /\ osm.score = (IF w \div 4 > 5 THEN w \div 4 ELSE 5)
                   /\ osm.score > 0
    /\ Pending("verify") => ENABLED call_verify

C13_Witness ==
    /\ Returned("verify")
    /\ call.issue = FullIssue
    /\ call.weights.osm_check = 20
    /\ call.phase1.checks.osm = Outcome("unclear", 5, 20)

\* C14: after Phase2Verifier.verify the social_dm channel, which has no
\* prerequisite, has status 'sent' when auto-send is configured and
\* 'drafted' otherwise.
C14_SocialDmBranching ==
    Returned("phase2_verify") =>
        call.phase2.social_dm.status = (IF call.auto_send THEN "sent" ELSE "drafted")

\* The record has a contact email or a website.
HasEmailPrerequisite(d) == d.contact \notin {Absent, ""} \/ d.website \notin {Absent, ""}

WeightSum(w) ==
    w.osm_check + w.website_check + w.social_media + w.cross_reference
    + w.data_consistency

\* C16: under a configuration whose phase-1 weights sum above 100, or whose
\* thresholds are not strictly decreasing, no submission is fetched or
\* processed and no report is posted.
C16_ConfigRejected ==
    (WeightSum(config.weights) > 100 \/ ~Ordered(config.thresholds)) =>
        (issues = << >> /\ results = << >> /\ calls = << >> /\ result = None)

\* C17: after an external interrupt arrives while submission idx is being
\* processed (or during the delay after it), the results computed for the
\* submissions before idx are still held by run() or were reported by the
\* batch summary.
C17_InterruptKeepsResults ==
    pc = "interrupted" =>
        \/ Len(results) >= idx - 1
        \/ summary # None /\ summary.total >= idx - 1

RECURSIVE SumCounts(_)
\* The sum of the counts of a dict of counts.
SumCounts(f) ==
    IF DOMAIN f = {} THEN 0
    ELSE LET key == CHOOSE x \in DOMAIN f : TRUE
         IN  f[key] + SumCounts([x \in DOMAIN f \ {key} |-> f[x]])

\* C19: once the loop of a batch has finished, the summary is produced
\* without failing; its Total is the number of fetched submissions,
\* Successful + Errors = Total, Errors is the number of error entries, and
\* the per-tier counts add up to the number of submissions that received a
\* recommendation.
C19_Summary ==
    /\ pc # "failed"
    /\ (pc = "done" /\ issues # << >>) => summary # None
    /\ summary # None =>
          /\ ~summary.raised
          /\ summary.total = Len(issues)
          /\ summary.completed + summary.errors = summary.total
          /\ summary.errors = Cardinality({k \in 1..Len(results) : IsError(results[k])})
          /\ SumCounts(summary.recommendations) =
                 Cardinality({k \in 1..Len(results) :
                                 /\ ~IsError(results[k])
                                 /\ results[k].recommendation # NoRecommendation})

\* The import signature: an 'Origin: square' line together with an 'Id:' line.
ImportSignature(body) ==
    /\ \E i \in 1..Len(body) : body[i].label = "Origin" /\ body[i].val = "square"
    /\ \E i \in 1..Len(body) : body[i].label = "Id"
MerchantNameLabel(body) == \E i \in 1..Len(body) : body[i].label = "Merchant name"

\* C20: a body is parsed as the import format only when it carries the
\* Origin/Id pair with the importer hint, as the manual format when it
\* carries a 'Merchant name:' label and not the import signature, and as
\* 'unknown' otherwise; an unknown record holds only the title as name, even
\* when the body contains a map link.
C20_FormatDetection ==
    Returned("_parse_issue") =>
        LET body == call.issue.body
            d == call.data
        IN  /\ d.source = "square" => ImportSignature(body)
            /\ (MerchantNameLabel(body) /\ ~ImportSignature(body)) => d.source = "manual"
            /\ (~MerchantNameLabel(body) /\ ~ImportSignature(body)) => d.source = "unknown"
            /\ d.source = "unknown" =>
                  /\ d.name = call.issue.title
                  /\ \A f \in Fields \ {"name"} : d[f] = Absent

\* The lines of a body that carry a map link, and what the field rules of
\* the record's format find for a coordinate field.
LinkLines(body) == {i \in 1..Len(body) : body[i].link # << >>}
FieldRuleValue(source, body, f) ==
    IF source = "manual" THEN ManualField(body, f) ELSE SquareField(body, f)

\* C21: in the import and the manual format, when the body contains a map
\* link both coordinates of the record are the link's, whatever the field
\* rules found; without a link the field-rule values are kept.
C21_MapLinkOverrides ==
    (Returned("_parse_issue") /\ call.data.source \in {"square", "manual"}) =>
        LET body == call.issue.body
            d == call.data
        IN  IF LinkLines(body) # {}
            THEN \E i \in LinkLines(body) :
                    d.lat = body[i].link[1] /\ d.lon = body[i].link[2]
            ELSE /\ d.lat = FieldRuleValue(d.source, body, "lat")
                 /\ d.lon = FieldRuleValue(d.source, body, "lon")

\* A manual body with a 'Lat:' line and a map link: the link's pair wins.
C21_Witness ==
    /\ Returned("_parse_issue")
    /\ call.data.source = "manual"
    /\ \E i \in 1..Len(call.issue.body) :
          call.issue.body[i].label = "Lat" /\ call.issue.body[i].val = "40.7128"
    /\ call.data.lat = "33.650462"
    /\ call.data.lon = "-85.834185"

\* Blank or a placeholder, in any letter case.
Placeholder(v) == v \in {"", Spaces, "n/a", "N/A", "none", "None"}
\* The lines of the body that give field f in the record's format.
FieldLinesOf(source, body, f) ==
    LET pats == IF source = "manual" THEN ManualPatterns ELSE SquarePatterns
    IN  IF f \in DOMAIN pats
        THEN {i \in 1..Len(body) : body[i].label \in pats[f].hits}
        ELSE {}

\* C22: a field whose value in the body is blank or a placeholder ('',
\* 'n/a', 'none', any letter case) is absent from the record (the name then
\* stays the title): no field of the record is a placeholder, and a blank
\* field does not take the text of the following line.
C22_PlaceholdersAbsent ==
    (Returned("_parse_issue") /\ call.data.source \in {"square", "manual"}) =>
        LET body == call.issue.body
            d == call.data
        IN  \A f \in Fields \ {"lat", "lon"} :
                /\ ~Placeholder(d[f])
                /\ (/\ FieldLinesOf(d.source, body, f) # {}
                    /\ \A i \in FieldLinesOf(d.source, body, f) : Placeholder(body[i].val))
                   => d[f] = (IF f = "name" THEN call.issue.title ELSE Absent)

\* C23: verify runs all five checks whatever the earlier ones returned: the
\* checks of its result are exactly osm, website, social, cross_reference and
\* consistency, each is the outcome of its check on the parsed record under
\* the weights, and cross_reference fails exactly when the record has no
\* merchant name.
C23_AllChecksRun ==
    Returned("verify") =>
        LET r == call.phase1
            w == call.weights
            d == call.phase1.issue_data
        IN  /\ DOMAIN r.checks = CheckNames
            /\ d = _parse_issue(call.issue)
            /\ r.checks.osm.max_score = w.osm_check
            /\ r.checks.website.max_score = w.website_check
            /\ r.checks.social.max_score = w.social_media
            /\ r.checks.cross_reference.max_score = w.cross_reference
            /\ r.checks.consistency.max_score = w.data_consistency
            /\ (r.checks.cross_reference.status = "fail") <=> ~Truthy(d.name)
            /\ Truthy(d.name) =>
                   /\ r.checks.cross_reference.status = "unclear"
                   /\ r.checks.cross_reference.score = 5
            /\ r.checks.social.status = "unclear"
            /\ r.checks.consistency.status \in {"pass", "partial"}

\* A record without name, coordinates or website: osm, website and
\* cross_reference fail, and the checks after each of them have still run.
C23_Witness ==
    /\ Returned("verify")
    /\ call.phase1.checks.osm.status = "fail"
    /\ call.phase1.checks.cross_reference.status = "fail"
    /\ call.phase1.checks.website.status = "fail"
    /\ call.phase1.checks.social.status = "unclear"
    /\ call.phase1.checks.consistency.status = "partial"
    /\ call.phase1.score = 5

\* The calls of submission k that wrote its final report.
FinalReportsAt(k) ==
    {n \in 1..Len(calls) : calls[n].at = k /\ calls[n].report = "final" /\ calls[n].ok}

\* C24: a submission whose phase-1 score is below phase1_threshold gets the
\* outreach verifier run after Phase 1, final score =
\* calculate_final_score(phase-1 score, outreach result), the recommendation
\* of that final score, and one final report (stated for submissions during
\* which no request to the issue tracker failed).
C24_BelowThresholdRunsOutreach ==
    \A k \in 1..Len(results) :
        (config.enable_phase1 /\ NoRequestFailedAt(k)) =>
            \A p1 \in {verify(config.weights, issues[k])} :
                p1.score < config.phase1_threshold =>
                    /\ ~IsError(results[k])
                    /\ results[k].phase2 =
                           phase2_verify(config.phase2_auto_send, issues[k], p1)
                    /\ results[k].final_score =
                           calculate_final_score(config.phase2_weights, p1.score,
                                                 results[k].phase2)
                    /\ results[k].recommendation =
                           get_recommendation(config.thresholds, results[k].final_score)
                    /\ Cardinality(FinalReportsAt(k)) = 1

\* The states in which _process_issue is at work on submission idx.
InProcess ==
    pc \in {"process", "phase1", "post_phase1", "threshold", "phase2", "final_report"}

\* C25: submissions are processed one at a time in fetch order: results[i]
\* is the entry of the i-th fetched submission, every request to the issue
\* tracker belongs to the submission at work or to an earlier one and the
\* requests are in fetch order, submission k+1 is only at work once results
\* holds the entries of submissions 1..k, and within a submission the
\* phase-1 result precedes the phase-1 report, which precedes the outreach,
\* which precedes the final report.
C25_SequentialOrder ==
    /\ Len(results) <= Len(issues)
    /\ \A i \in 1..Len(results) : results[i].issue_number = issues[i].number
    /\ \A n \in 1..Len(calls) :
          /\ calls[n].at <= Len(results) + 1
          /\ calls[n].at <= idx
          /\ calls[n].issue = issues[calls[n].at].number
          /\ \A m \in (n + 1)..Len(calls) :
                /\ calls[n].at <= calls[m].at
                /\ calls[n].at = calls[m].at =>
                       calls[n].report = "phase1" /\ calls[m].report = "final"
    /\ InProcess => Len(results) = idx - 1
    /\ pc = "delay" => Len(results) = idx
    /\ pc = "summary" => Len(results) = Len(issues)
    /\ (InProcess /\ pc # "process") => result.issue_number = issues[idx].number
    /\ (pc \in {"post_phase1", "threshold"}) =>
           result.phase1 # None /\ result.phase2 = None
    /\ pc = "post_phase1" => result.comments_posted = << >>
    /\ pc = "phase2" => result.phase2 = None /\ Len(result.comments_posted) <= 1
    /\ pc = "final_report" =>
           /\ result.phase1 # None
           /\ \A n \in 1..Len(calls) : calls[n].at = idx => calls[n].report = "phase1"
           /\ result.phase1.score < config.phase1_threshold => result.phase2 # None

\* Two different submissions both went through phase-1 report, outreach and
\* final report, and results holds both entries.
C25_Witness ==
    /\ Len(results) = 2
    /\ issues[1] # issues[2]
    /\ Len(calls) = 4
    /\ ~IsError(results[1]) /\ ~IsError(results[2])
    /\ results[1].phase2 # None /\ results[2].phase2 # None

\* The checks the reasoning of a detailed recommendation has a line for.
ReasonedChecks(detail) ==
    {detail.reasoning[k].subject : k \in 1..Len(detail.reasoning)} \cap CheckNames
ActionItems(detail) == {detail.action_items[k] : k \in 1..Len(detail.action_items)}

\* C26: get_detailed_recommendation has a reasoning line for exactly the
\* checks whose score is below half their max_score, and whenever the score
\* is below the medium threshold it asks for the website URL when the record
\* has no website and for the social media handles when no handle is known.
C26_DetailedRecommendation ==
    Returned("get_detailed_recommendation") =>
        LET checks == call.phase1.checks
            data == call.phase1.issue_data
        IN  /\ \A n \in CheckNames :
                  n \in ReasonedChecks(call.detail) <=>
                      2 * checks[n].score < checks[n].max_score
            /\ call.detail.score < call.thresholds.medium =>
                  /\ ~Truthy(data.website) =>
                         "Request website URL" \in ActionItems(call.detail)
                  /\ discovered_handles(data) = {} =>
                         "Request social media handles" \in ActionItems(call.detail)

\* C27: every result of _process_issue that is no error entry, under every
\* combination of enable_phase1 and enable_phase2, has a recommendation, the
\* recommendation is get_recommendation(final_score), and final_score is the
\* computed one: the phase-1 score when Phase 2 was skipped, the result of
\* calculate_final_score otherwise, never the initial 0 beside a non-zero
\* phase-1 score.
C27_ResultHasRecommendation ==
    \A k \in 1..Len(results) :
        ~IsError(results[k]) =>
            LET r == results[k]
            IN  /\ r.recommendation # NoRecommendation
                /\ r.recommendation = get_recommendation(config.thresholds, r.final_score)
                /\ r.phase1 # None =>
                       r.final_score =
                           IF r.phase2 = None
                           THEN r.phase1.score
                           ELSE calculate_final_score(config.phase2_weights,
                                                      r.phase1.score, r.phase2)

\* C28: under the documented weights the phase-1 score of verify of a
\* submission with a non-empty title is between 10 and 30 inclusive, so its
\* first-pass recommendation under the documented thresholds is very-low
\* and a phase1_threshold above 30 never skips Phase 2.
C28_PhaseOneScoreRange ==
    /\ (/\ Returned("verify")
        /\ call.weights = DocumentedWeights
        /\ call.issue.title # "") =>
           /\ 10 <= call.phase1.score
           /\ call.phase1.score <= 30
           /\ get_recommendation(DocumentedThresholds, call.phase1.score) = VERY_LOW
    \* the phase-1 score the outreach of a submitted body starts from
    /\ (/\ Returned("phase2_verify")
        /\ call.weights = DocumentedWeights
        /\ call.issue.title # "") =>
           /\ 10 <= call.phase1_score
           /\ call.phase1_score <= 30
           /\ get_recommendation(DocumentedThresholds, call.phase1_score) = VERY_LOW

\* The requests of submission k, by operation and by the report they carry.
RequestsAt(k, op) == {n \in 1..Len(calls) : calls[n].at = k /\ calls[n].op = op}
Phase1ReportsAt(k) ==
    {n \in 1..Len(calls) : calls[n].at = k /\ calls[n].report = "phase1" /\ calls[n].ok}

\* C29: for every result: when update_phase1_comment is true and the phase-1
\* report was posted, the final report is an update_comment on the id of the
\* phase-1 comment and post_comment was called exactly once; otherwise the
\* final report is a new post_comment.  comments_posted has at most two
\* entries, the last one is ('final', id of the final report), and
\* post_comment was called at most twice for the submission.
C29_CommentAccounting ==
    \A k \in 1..Len(results) :
        ~IsError(results[k]) =>
            LET posted == results[k].comments_posted
            IN  /\ Len(posted) \in {1, 2}
                /\ Cardinality(RequestsAt(k, "post_comment")) <= 2
                /\ \E n \in FinalReportsAt(k) :
                      /\ posted[Len(posted)] = <<"final", calls[n].id>>
                      /\ IF config.update_phase1_comment /\ Phase1ReportsAt(k) # {}
                         THEN /\ calls[n].op = "update_comment"
                              /\ \E m \in Phase1ReportsAt(k) :
                                    calls[m].id = calls[n].id /\ m < n
                              /\ Cardinality(RequestsAt(k, "post_comment")) = 1
                         ELSE calls[n].op = "post_comment"

\* C30: after Phase2Verifier.verify the email channel has left 'skipped' if
\* and only if the record has a contact email; a record with a website and
\* no contact email ends 'skipped' with the reason 'No contact email
\* available', no email being derived from the website.
C30_EmailNeedsContact ==
    Returned("phase2_verify") =>
        \A d \in {_parse_issue(call.issue)} :
            LET email == call.phase2.email
            IN  /\ email.status # "skipped" <=> Truthy(d.contact)
                /\ (~Truthy(d.contact) /\ Truthy(d.website)) =>
                       /\ email.status = "skipped"
                       /\ email.reason = "No contact email available"
                       /\ email.score = 0

\* A record with a website and no contact email went through the outreach.
C30_Witness ==
    /\ Returned("phase2_verify")
    /\ Truthy(_parse_issue(call.issue).website)
    /\ ~Truthy(_parse_issue(call.issue).contact)
    /\ call.phase2.email.status = "skipped"
    /\ call.phase2.email.reason = "No contact email available"

====
